---- MODULE Spec2Model ----
(***************************************************************************)
(* Model of gaper's file watcher (src/watcher.go): path resolution         *)
(* (resolvePaths, removeOverlappedPaths), the polling scanner (scanChange  *)
(* and its filepath.Walk callback) and the Watch loop.                     *)
(*                                                                         *)
(* Paths are sequences of one-character strings, so that strings.HasPrefix,*)
(* filepath.Base and filepath.Ext are computed character by character as   *)
(* the Go library computes them.                                           *)
(***************************************************************************)
EXTENDS Integers, Sequences, FiniteSets, TLC

VARIABLES
    \* ---- resolvePaths, run step by step (SpecResolve) ----
    rPaths,      \* the `paths` argument: a sequence of patterns
    rExts,       \* the `extensions` argument: the set of allowed extensions
    rIdx,        \* index of the pattern the loop of line 136 handles next
    rResult,     \* the map `result`: a function path -> BOOLEAN
    rCand,       \* keys of `result` when removeOverlappedPaths was entered
    rTodo,       \* keys the outer range of line 170 has still to yield
    rPc,         \* "idle" | "collect" | "overlap" | "done" | "failed"
    \* ---- the watcher instances and the Watch loop ----
    args,        \* per instance: the arguments NewWatcher was called with
    watchItems,  \* per instance: resolved watch set (watcher.watchItems)
    ignoreItems, \* per instance: resolved ignore set (watcher.ignoreItems)
    allowedExtensions, \* per instance: watcher.allowedExtensions
    pc,          \* per instance: position of Watch
    todo,        \* per instance: roots the range of line 74 has still to yield
    pending,     \* per instance: value the loop is blocked sending
    startTime,   \* the package-level baseline (line 68)
    \* ---- environment ----
    clock,       \* time.Now()
    mtime,       \* modification time of the entries that can be saved
    fault,       \* the I/O fault currently present in the file system
    \* ---- history (observations only, read by no action guard) ----
    mod,         \* per saved entry: what happened to its latest modification
    cycleEvents, \* per instance: events delivered since the last sleep began
    errCount,    \* per instance: errors delivered on the errors stream
    scanned      \* per instance and root: calls of scanChange in this cycle

resolveVars == <<rPaths, rExts, rIdx, rResult, rCand, rTodo, rPc>>
watchVars == <<args, watchItems, ignoreItems, allowedExtensions, pc, todo, pending, startTime>>
envVars == <<clock, mtime, fault>>
histVars == <<mod, cycleEvents, errCount, scanned>>
vars == <<resolveVars, watchVars, envVars, histVars>>

----------------------------------------------------------------------------
(* Bounds *)

\* the clock runs from 0 to MaxTime
MaxTime == 2
\* longest pattern list handed to resolvePaths in SpecResolve
MaxPatterns == 3

----------------------------------------------------------------------------
(* Strings and paths *)

Sep == "/"
Dot == "."
Star == "*"

\* strings.HasPrefix(s, prefix)
HasPrefix(s, prefix) ==
    /\ Len(prefix) <= Len(s)
    /\ SubSeq(s, 1, Len(prefix)) = prefix

\* strings.Contains(path, "*")
ContainsStar(path) == \E i \in 1..Len(path) : path[i] = Star

\* index of the last separator of s, 0 when there is none
LastSep(s) ==
    LET idx == {i \in 1..Len(s) : s[i] = Sep}
    IN IF idx = {} THEN 0 ELSE CHOOSE i \in idx : \A j \in idx : j <= i

RECURSIVE StripTrailingSep(_)
StripTrailingSep(s) ==
    IF Len(s) > 0 /\ s[Len(s)] = Sep
    THEN StripTrailingSep(SubSeq(s, 1, Len(s) - 1))
    ELSE s

\* filepath.Base(path): the last element; "." for the empty path, "/" for
\* a path of separators only
Base(path) ==
    IF path = <<>> THEN <<Dot>>
    ELSE LET s == StripTrailingSep(path)
             t == SubSeq(s, LastSep(s) + 1, Len(s))
         IN IF t = <<>> THEN <<Sep>> ELSE t

\* filepath.Ext(path): the suffix beginning at the final dot of the final
\* element of path; empty if there is no dot
Ext(path) ==
    LET from == LastSep(path) + 1
        dots == {i \in from..Len(path) : path[i] = Dot}
    IN IF dots = {} THEN <<>>
       ELSE SubSeq(path, CHOOSE i \in dots : \A j \in dots : j <= i, Len(path))

\* filepath.Join(dir, name) for a clean dir and a single element name
Join(dir, name) == dir \o <<Sep>> \o name

----------------------------------------------------------------------------
(* The file tree the model runs on *)

P == <<"p">>
PQ == <<"p", "q">>
Hid == <<"p", "/", ".", "h">>
HidA == <<"p", "/", ".", "h", "/", "a", ".", "g">>
AG == <<"p", "/", "a", ".", "g">>
DG == <<"p", "/", "d", ".", "g">>
S == <<"p", "/", "s">>
SY == <<"p", "/", "s", "/", "y", ".", "g">>
XL == <<"p", "/", "x", ".", "l">>
QA == <<"p", "q", "/", "a", ".", "g">>

Dirs == {P, PQ, Hid, DG, S}
Files == {HidA, AG, SY, XL, QA}
Entries == Dirs \cup Files

\* entries whose modification time changes while the watcher runs
Saved == {HidA, AG, DG, SY}

\* readDirNames(dir): the names in dir, sorted
DirNames(dir) ==
    CASE dir = P -> << <<".", "h">>, <<"a", ".", "g">>, <<"d", ".", "g">>,
                       <<"s">>, <<"x", ".", "l">> >>
      [] dir = PQ -> << <<"a", ".", "g">> >>
      [] dir = Hid -> << <<"a", ".", "g">> >>
      [] dir = S -> << <<"y", ".", "g">> >>
      [] OTHER -> << >>

----------------------------------------------------------------------------
(* resolvePaths and removeOverlappedPaths *)

\* zglob's pattern matching: "*" matches a run of characters other than the
\* separator, a leading "**/" of a path element matches any number of
\* directories, every other character matches itself
RECURSIVE GlobMatch(_, _)
GlobMatch(pat, s) ==
    IF pat = <<>> THEN s = <<>>
    ELSE IF Len(pat) >= 3 /\ SubSeq(pat, 1, 3) = <<Star, Star, Sep>>
    THEN \/ GlobMatch(SubSeq(pat, 4, Len(pat)), s)
         \/ \E i \in 1..Len(s) :
               s[i] = Sep /\ GlobMatch(SubSeq(pat, 4, Len(pat)), SubSeq(s, i + 1, Len(s)))
    ELSE IF Head(pat) = Star
    THEN \/ GlobMatch(Tail(pat), s)
         \/ s # <<>> /\ Head(s) # Sep /\ GlobMatch(pat, Tail(s))
    ELSE s # <<>> /\ Head(s) = Head(pat) /\ GlobMatch(Tail(pat), Tail(s))

\* an unterminated bracket expression: a "[" with no "]" after it
Malformed(pattern) ==
    \E i \in 1..Len(pattern) :
        pattern[i] = "[" /\ \A j \in (i + 1)..Len(pattern) : pattern[j] # "]"

\* lines 142-143: zglob.Glob returns an error; the case lines 143-145 are
\* written for is a pattern that cannot be parsed
GlobFails(pattern) == Malformed(pattern)

\* zglob.Glob(pattern): the entries of the file tree the pattern matches
Glob(pattern) == {e \in Entries : GlobMatch(pattern, e)}

\* lines 137-146: the matches of one element of `paths`
Matches(path) == IF ContainsStar(path) THEN Glob(path) ELSE {path}

\* lines 148-155: the matches of `path` that pass the extension test of a
\* glob; the test reads the extension of `path`, the pattern
KeptMatches(path, extensions) ==
    {match \in Matches(path) :
        ~(ContainsStar(path) /\ Ext(path) \notin extensions)}

\* lines 157-159: result[match] = true for every kept match not yet a key
AddMatches(result, kept) ==
    [p \in DOMAIN result \cup kept |->
        IF p \in DOMAIN result THEN result[p] ELSE TRUE]

\* InnerLoop with line 184 writing mapPaths[p2] instead of mapPaths[p1]
InnerLoopMarksOther(mapPaths, p1) ==
    [p \in DOMAIN mapPaths |->
        IF p # p1 /\ (HasPrefix(p, p1) \/ HasPrefix(p1, p)) THEN FALSE
        ELSE mapPaths[p]]

\* lines 176-186: the inner range for one p1; it adds and deletes no key,
\* and what it writes does not depend on the order it meets the keys in
InnerLoop(mapPaths, p1) ==
    [p \in DOMAIN mapPaths |->
        IF p # p1 /\ HasPrefix(p, p1) THEN FALSE
        ELSE IF p = p1 /\ \E p2 \in DOMAIN mapPaths :
                            p2 # p1 /\ ~HasPrefix(p2, p1) /\ HasPrefix(p1, p2)
        THEN FALSE
        ELSE mapPaths[p]]

\* OverlapStep with the test of line 172 inverted
OverlapStepInverted(mapPaths, p1) ==
    IF mapPaths[p1] THEN mapPaths ELSE InnerLoop(mapPaths, p1)

\* lines 170-187: one iteration of the outer range, for the key p1
OverlapStep(mapPaths, p1) ==
    IF ~mapPaths[p1] THEN mapPaths ELSE InnerLoop(mapPaths, p1)

\* lines 190-194: delete the keys marked false
Cleanup(mapPaths) ==
    [p \in {q \in DOMAIN mapPaths : mapPaths[q]} |-> mapPaths[p]]

\* what removeOverlappedPaths can leave, over every order in which the
\* outer range can yield the keys in `keys`
RECURSIVE OverlapOutcomes(_, _)
OverlapOutcomes(mapPaths, keys) ==
    IF keys = {} THEN {Cleanup(mapPaths)}
    ELSE UNION {OverlapOutcomes(OverlapStep(mapPaths, p1), keys \ {p1}) : p1 \in keys}

\* lines 136-161: the map `result` after the loop over paths[from..]
RECURSIVE Collect(_, _, _, _)
Collect(paths, extensions, from, result) ==
    IF from > Len(paths) THEN result
    ELSE Collect(paths, extensions, from + 1,
                 AddMatches(result, KeptMatches(paths[from], extensions)))

\* resolvePaths(paths, extensions): what it can return: the error of line
\* 144 for the first glob that fails, else a key set
resolvePaths(paths, extensions) ==
    IF \E i \in 1..Len(paths) : ContainsStar(paths[i]) /\ GlobFails(paths[i])
    THEN {[err |-> TRUE, paths |-> {}]}
    ELSE LET result == Collect(paths, extensions, 1, <<>>)
         IN {[err |-> FALSE, paths |-> DOMAIN m] :
                m \in OverlapOutcomes(result, DOMAIN result)}

----------------------------------------------------------------------------
(* The file system as the walk sees it *)

NoFault == <<>>
\* the I/O faults the environment can raise: <<entry, call that fails>>
Faults == {<<S, "lstat">>, <<S, "readdir">>, <<AG, "lstat">>}

\* the os.FileInfo the walk has when lstat failed
NilInfo == [nil |-> TRUE]

ModTime(path) == IF path \in Saved THEN mtime[path] ELSE 0

\* the os.FileInfo of an entry: IsDir() and ModTime()
Info(path) == [nil |-> FALSE, isDir |-> path \in Dirs, modTime |-> ModTime(path)]

\* t.After(u)
After(t, u) == t > u

----------------------------------------------------------------------------
(* scanChange: filepath.Walk and the callback *)

\* line 109: the base name begins with '.' and is not "."
Hidden(path) == LET dir == Base(path) IN dir[1] = Dot /\ dir # <<Dot>>

\* skipFile without the SkipDir of line 199
skipFileNeverSkipDir(info) ==
    IF info.nil THEN "panic"
    ELSE "nil"

\* lines 197-202; info.IsDir() on a nil os.FileInfo panics
skipFile(info) ==
    IF info.nil THEN "panic"
    ELSE IF info.isDir THEN "SkipDir"
    ELSE "nil"

\* lines 107-124: what the callback returns for one entry: "nil",
\* "SkipDir", "done" (errDetectedChange) or "panic"; it does not read err
WalkFn(w, path, info, err) ==
    IF Hidden(path) THEN skipFile(info)
    ELSE IF path \in ignoreItems[w] THEN skipFile(info)
    ELSE IF Ext(path) \in allowedExtensions[w]
    THEN IF info.nil THEN "panic"
         ELSE IF After(info.modTime, startTime) THEN "done"
         ELSE "nil"
    ELSE "nil"

\* one call of the callback: its return value, the assignment of line 119,
\* and for the record the entry visited and whether the walk met an I/O error
Visit(w, path, info, err) ==
    LET r == WalkFn(w, path, info, err)
    IN [ret |-> r,
        changed |-> IF r = "done" THEN path ELSE <<>>,
        visited |-> <<path>>,
        ioerr |-> err]

\* the outcome of a part of the walk followed by the rest of it
AndThen(a, b) ==
    [ret |-> b.ret,
     changed |-> b.changed,
     visited |-> a.visited \o b.visited,
     ioerr |-> a.ioerr \/ b.ioerr]

WalkDone == [ret |-> "nil", changed |-> <<>>, visited |-> <<>>, ioerr |-> FALSE]

\* filepath.walk(path, info, walkFn), and its loop over the names of a
\* directory from the i-th on. Every error the walk meets (lstat of the
\* root or of a child, reading a directory) is handed to the callback, and
\* the walk returns only what the callback returns.
RECURSIVE walk(_, _, _)
RECURSIVE walkNames(_, _, _, _)
walk(w, path, info) ==
    IF ~info.isDir THEN Visit(w, path, info, FALSE)
    ELSE LET err == (fault = <<path, "readdir">>)
             v == Visit(w, path, info, err)
         IN IF err \/ v.ret # "nil" THEN v
            ELSE AndThen(v, walkNames(w, path, DirNames(path), 1))

walkNames(w, dir, names, i) ==
    IF i > Len(names) THEN WalkDone
    ELSE LET filename == Join(dir, names[i])
             lerr == (fault = <<filename, "lstat">>)
             r == IF lerr THEN Visit(w, filename, NilInfo, TRUE)
                  ELSE walk(w, filename, Info(filename))
             stop == IF lerr THEN r.ret \notin {"nil", "SkipDir"}
                     ELSE r.ret # "nil" /\ (filename \notin Dirs \/ r.ret # "SkipDir")
         IN IF stop THEN r
            ELSE AndThen(r, walkNames(w, dir, names, i + 1))

\* filepath.Walk(root, walkFn)
Walk(w, root) ==
    LET lerr == (fault = <<root, "lstat">>)
        r == IF lerr THEN Visit(w, root, NilInfo, TRUE)
             ELSE walk(w, root, Info(root))
    IN IF r.ret = "SkipDir" THEN [r EXCEPT !.ret = "nil"] ELSE r

\* lines 102-131: kind "ok" with fileChanged, kind "error" (a non-nil error
\* other than errDetectedChange), or kind "panic"
scanChange(w, watchPath) ==
    LET r == Walk(w, watchPath)
    IN [kind |-> IF r.ret = "panic" THEN "panic"
                 ELSE IF r.ret \notin {"nil", "done"} THEN "error"
                 ELSE "ok",
        fileChanged |-> IF r.ret \in {"nil", "done"} THEN r.changed ELSE <<>>,
        visited |-> r.visited,
        ioerr |-> r.ioerr]

----------------------------------------------------------------------------
(* NewWatcher *)

Instances == {1, 2}

NoArgs == [watch |-> <<>>, ignore |-> <<>>, exts |-> <<>>]

PStar == <<"p", "/", "*">>
PStarG == <<"p", "/", "*", ".", "g">>
PDeepG == <<"p", "/", "*", "*", "/", "*", ".", "g">>
\* two malformed patterns: p/[a and p/[*
PBad == <<"p", "/", "[", "a">>
PBadStar == <<"p", "/", "[", "*">>

\* lines 41-44: the extension filter built from the bare extensions
AllowedExts(extensions) ==
    {<<Dot>> \o extensions[i] : i \in 1..Len(extensions)}

\* the arguments the watcher is constructed with
Configs ==
    { [watch |-> <<P>>, ignore |-> <<>>, exts |-> << <<"g">> >>],
      [watch |-> <<P>>, ignore |-> <<S>>, exts |-> << <<"g">> >>],
      [watch |-> <<AG, S>>, ignore |-> <<>>, exts |-> << <<"g">> >>],
      [watch |-> <<S>>, ignore |-> <<P, S>>, exts |-> << <<"g">> >>] }

\* lines 32-66: what NewWatcher(_, watch, ignore, exts) can return: an error
\* and no watcher (lines 47-49, 52-54), or a watcher
NewWatcher(cfg) ==
    LET allowedExts == AllowedExts(cfg.exts)
        failed == [err |-> TRUE, watchItems |-> {}, ignoreItems |-> {},
                   allowedExtensions |-> {}]
    IN { IF wp.err \/ ip.err THEN failed
         ELSE [err |-> FALSE, watchItems |-> wp.paths, ignoreItems |-> ip.paths,
               allowedExtensions |-> allowedExts] :
           wp \in resolvePaths(cfg.watch, allowedExts),
           ip \in resolvePaths(cfg.ignore, allowedExts) }

----------------------------------------------------------------------------
(* The Watch loop *)

NoPending == [kind |-> "none"]
\* the positions between a detected change and the baseline being set
Handoff == {"sendEvent", "setBaseline"}

\* line 74: the range over w.watchItems starts
StartCycle(w) == watchItems[w]

\* TodoAfterEvent with the range started over after an event
TodoRestarted(w, watchPath) == watchItems[w]

\* TodoAfterEvent with a break out of the range after an event
TodoBreak(w, watchPath) == {}

\* lines 74, 81-85: the roots the range has still to yield once the event for
\* watchPath was sent: the range goes on with the next root
TodoAfterEvent(w, watchPath) == todo[w] \ {watchPath}

\* EventSend over a buffered channel: the send completes with no receiver
EventSendBuffered == "setBaseline"

\* line 82 on the channel of line 59, which has no buffer: the loop waits in
\* the send until the consumer receives
EventSend == "sendEvent"

\* lines 75-85, up to the send: the body of the inner loop for the root
\* watchPath, given what scanChange returned for it
LoopBody(w, watchPath, res) ==
    /\ UNCHANGED <<args, watchItems, ignoreItems, allowedExtensions, startTime>>
    /\ UNCHANGED <<envVars, cycleEvents, errCount>>
    /\ scanned' = [scanned EXCEPT ![w][watchPath] = @ + 1]
    /\ IF res.kind = "panic"
       THEN /\ pc' = [pc EXCEPT ![w] = "crashed"]
            /\ UNCHANGED <<todo, pending, mod>>
       ELSE IF res.kind = "error"
       THEN /\ pc' = [pc EXCEPT ![w] = "sendError"]
            /\ pending' = [pending EXCEPT ![w] = [kind |-> "error", root |-> watchPath]]
            /\ UNCHANGED <<todo, mod>>
       ELSE IF res.fileChanged # <<>>
       THEN /\ pc' = [pc EXCEPT ![w] = EventSend]
            /\ pending' = [pending EXCEPT ![w] =
                   [kind |-> "event",
                    path |-> res.fileChanged,
                    root |-> watchPath,
                    isDir |-> res.fileChanged \in Dirs,
                    modTime |-> ModTime(res.fileChanged),
                    baseline |-> startTime,
                    was |-> IF res.fileChanged \in Saved
                            THEN mod[res.fileChanged] ELSE "none"]]
            /\ todo' = [todo EXCEPT ![w] = TodoAfterEvent(w, watchPath)]
            /\ mod' = [f \in Saved |->
                         IF f = res.fileChanged THEN "detected" ELSE mod[f]]
       ELSE /\ todo' = [todo EXCEPT ![w] = @ \ {watchPath}]
            /\ UNCHANGED <<pc, pending, mod>>

\* lines 74-75: the range yields a root and scanChange walks it
Scan(w) ==
    /\ pc[w] = "scan"
    /\ \E watchPath \in todo[w] : LoopBody(w, watchPath, scanChange(w, watchPath))
    /\ UNCHANGED resolveVars

\* line 87: the range is exhausted, the loop sleeps
EndCycle(w) ==
    /\ pc[w] = "scan"
    /\ todo[w] = {}
    /\ pc' = [pc EXCEPT ![w] = "sleep"]
    /\ cycleEvents' = [cycleEvents EXCEPT ![w] = 0]
    /\ UNCHANGED <<args, watchItems, ignoreItems, allowedExtensions, todo, pending, startTime>>
    /\ UNCHANGED <<resolveVars, envVars, mod, errCount, scanned>>

\* lines 87, 73-74: the sleep ends and the next cycle begins
Wake(w) ==
    /\ pc[w] = "sleep"
    /\ pc' = [pc EXCEPT ![w] = "scan"]
    /\ todo' = [todo EXCEPT ![w] = StartCycle(w)]
    /\ scanned' = [scanned EXCEPT ![w] = [r \in watchItems[w] |-> 0]]
    /\ UNCHANGED <<args, watchItems, ignoreItems, allowedExtensions, pending, startTime>>
    /\ UNCHANGED <<resolveVars, envVars, mod, cycleEvents, errCount>>

\* AfterError without the return of line 78: the range goes on
AfterErrorNoReturn == "scan"

\* where Watch goes once the consumer has taken the error of line 77
AfterError == "stopped"

\* lines 77-78 and 82: the consumer receives from the channel the loop is
\* blocked on; after an error Watch returns
Consume(w) ==
    /\ pc[w] \in {"sendEvent", "sendError"}
    /\ IF pc[w] = "sendEvent"
       THEN /\ pc' = [pc EXCEPT ![w] = "setBaseline"]
            /\ cycleEvents' = [cycleEvents EXCEPT ![w] = @ + 1]
            /\ UNCHANGED <<pending, errCount>>
       ELSE /\ pc' = [pc EXCEPT ![w] = AfterError]
            /\ errCount' = [errCount EXCEPT ![w] = @ + 1]
            /\ pending' = [pending EXCEPT ![w] = NoPending]
            /\ UNCHANGED cycleEvents
    /\ UNCHANGED <<args, watchItems, ignoreItems, allowedExtensions, todo, startTime>>
    /\ UNCHANGED <<resolveVars, envVars, mod, scanned>>

\* NewBaseline with the assignment of line 83 lost
BaselineKept == startTime

\* line 83: the baseline written after an event was sent
NewBaseline == clock

\* line 83: startTime = time.Now()
SetBaseline(w) ==
    /\ pc[w] = "setBaseline"
    /\ startTime' = NewBaseline
    /\ pc' = [pc EXCEPT ![w] = "scan"]
    /\ pending' = [pending EXCEPT ![w] = NoPending]
    /\ mod' = [f \in Saved |->
                 IF f = pending[w].path /\ mod[f] = "detected" THEN "reported" ELSE mod[f]]
    /\ UNCHANGED <<args, watchItems, ignoreItems, allowedExtensions, todo>>
    /\ UNCHANGED <<resolveVars, envVars, cycleEvents, errCount, scanned>>

----------------------------------------------------------------------------
(* The environment: the clock, the editor saving files, I/O faults *)

Tick ==
    /\ clock < MaxTime
    /\ clock' = clock + 1
    /\ UNCHANGED <<mtime, fault, resolveVars, watchVars, histVars>>

\* an entry at or below a watch root is saved: its modification time
\* becomes the current time (no walk reads the entries outside the roots)
Save(f) ==
    /\ \E w \in Instances : \E root \in watchItems[w] :
          f = root \/ HasPrefix(f, root \o <<Sep>>)
    /\ mtime[f] < clock
    /\ mtime' = [mtime EXCEPT ![f] = clock]
    /\ mod' = [mod EXCEPT ![f] =
                 IF ~After(clock, startTime) THEN @
                 ELSE IF \E w \in Instances : pc[w] \in Handoff THEN "handoff"
                 ELSE "saved"]
    /\ UNCHANGED <<clock, fault, resolveVars, watchVars, cycleEvents, errCount, scanned>>

SetFault(f) ==
    /\ fault = NoFault
    /\ fault' = f
    /\ UNCHANGED <<clock, mtime, resolveVars, watchVars, histVars>>

ClearFault ==
    /\ fault # NoFault
    /\ fault' = NoFault
    /\ UNCHANGED <<clock, mtime, resolveVars, watchVars, histVars>>

----------------------------------------------------------------------------
(* Specification of the running watcher *)

ResolveIdle ==
    /\ rPaths = <<>>
    /\ rExts = {}
    /\ rIdx = 1
    /\ rResult = <<>>
    /\ rCand = {}
    /\ rTodo = {}
    /\ rPc = "idle"

EnvInit ==
    /\ clock = 0
    /\ mtime = [f \in Saved |-> 0]
    /\ fault = NoFault

HistInit ==
    /\ mod = [f \in Saved |-> "none"]
    /\ cycleEvents = [w \in Instances |-> 0]
    /\ errCount = [w \in Instances |-> 0]

\* no root was scanned yet in the first cycle
ScannedInit == scanned = [w \in Instances |-> [r \in watchItems[w] |-> 0]]

\* instance 1 was constructed and its Watch started; instance 2 was not
Init ==
    /\ ResolveIdle
    /\ EnvInit
    /\ HistInit
    /\ startTime = 0
    /\ \E cfg \in Configs : \E nw \in NewWatcher(cfg) :
         /\ ~nw.err
         /\ args = [w \in Instances |-> IF w = 1 THEN cfg ELSE NoArgs]
         /\ watchItems = [w \in Instances |-> IF w = 1 THEN nw.watchItems ELSE {}]
         /\ ignoreItems = [w \in Instances |-> IF w = 1 THEN nw.ignoreItems ELSE {}]
         /\ allowedExtensions =
                [w \in Instances |-> IF w = 1 THEN nw.allowedExtensions ELSE {}]
         /\ todo = [w \in Instances |-> IF w = 1 THEN nw.watchItems ELSE {}]
    /\ pc = [w \in Instances |-> IF w = 1 THEN "scan" ELSE "absent"]
    /\ pending = [w \in Instances |-> NoPending]
    /\ ScannedInit

Environment ==
    \/ Tick
    \/ \E f \in Saved : Save(f)
    \/ \E f \in Faults : SetFault(f)
    \/ ClearFault

Next ==
    \/ \E w \in Instances : Scan(w)
    \/ \E w \in Instances : EndCycle(w)
    \/ \E w \in Instances : Wake(w)
    \/ \E w \in Instances : Consume(w)
    \/ \E w \in Instances : SetBaseline(w)
    \/ Environment

Spec == Init /\ [][Next]_vars

----------------------------------------------------------------------------
(* Specification of the Watch loop over every result scanChange's type     *)
(* (string, error) allows: the loop body of lines 75-85 taken on its own   *)

ScanResults ==
    {[kind |-> "ok", fileChanged |-> f, visited |-> <<>>, ioerr |-> FALSE] :
        f \in {<<>>} \cup Saved}
    \cup {[kind |-> "error", fileChanged |-> <<>>, visited |-> <<>>, ioerr |-> TRUE]}

ScanAny(w) ==
    /\ pc[w] = "scan"
    /\ \E watchPath \in todo[w] : \E res \in ScanResults : LoopBody(w, watchPath, res)
    /\ UNCHANGED resolveVars

NextLoop ==
    \/ \E w \in Instances : ScanAny(w)
    \/ \E w \in Instances : EndCycle(w)
    \/ \E w \in Instances : Wake(w)
    \/ \E w \in Instances : Consume(w)
    \/ \E w \in Instances : SetBaseline(w)
    \/ Tick

SpecLoop == Init /\ [][NextLoop]_vars

----------------------------------------------------------------------------
(* Specification of resolvePaths run on its own, step by step *)

Patterns == {P, PQ, S, AG, PStar, PStarG, PDeepG, PBadStar}

RECURSIVE SeqsUpTo(_, _)
SeqsUpTo(set, n) ==
    IF n = 0 THEN {<<>>}
    ELSE LET shorter == SeqsUpTo(set, n - 1)
         IN shorter \cup {Append(q, x) : q \in shorter, x \in set}

ExtensionLists == { << <<"g">> >>, << <<"l">> >> }

WatchIdle ==
    /\ args = [w \in Instances |-> NoArgs]
    /\ watchItems = [w \in Instances |-> {}]
    /\ ignoreItems = [w \in Instances |-> {}]
    /\ allowedExtensions = [w \in Instances |-> {}]
    /\ pc = [w \in Instances |-> "absent"]
    /\ todo = [w \in Instances |-> {}]
    /\ pending = [w \in Instances |-> NoPending]
    /\ ScannedInit
    /\ startTime = 0

\* resolvePaths is entered with its arguments (lines 133-134)
ResolveInit ==
    /\ WatchIdle
    /\ EnvInit
    /\ HistInit
    /\ rPaths \in SeqsUpTo(Patterns, MaxPatterns)
    /\ \E exts \in ExtensionLists : rExts = AllowedExts(exts)
    /\ rIdx = 1
    /\ rResult = <<>>
    /\ rCand = {}
    /\ rTodo = {}
    /\ rPc = IF rPaths = <<>> THEN "overlap" ELSE "collect"

\* lines 136-161: one iteration of the loop over paths; after the last one
\* removeOverlappedPaths is entered (line 163)
ResolveCollect ==
    /\ rPc = "collect"
    /\ IF ContainsStar(rPaths[rIdx]) /\ GlobFails(rPaths[rIdx])
       THEN /\ rPc' = "failed"
            /\ rResult' = <<>>
            /\ UNCHANGED <<rIdx, rTodo, rCand>>
       ELSE LET next == AddMatches(rResult, KeptMatches(rPaths[rIdx], rExts))
            IN /\ rResult' = next
               /\ rIdx' = rIdx + 1
               /\ IF rIdx = Len(rPaths)
                  THEN rPc' = "overlap" /\ rTodo' = DOMAIN next /\ rCand' = DOMAIN next
                  ELSE UNCHANGED <<rPc, rTodo, rCand>>
    /\ UNCHANGED <<rPaths, rExts, watchVars, envVars, histVars>>

\* lines 170-187: the outer range yields some key not yet yielded
ResolveOverlap ==
    /\ rPc = "overlap"
    /\ \E p1 \in rTodo :
         /\ rResult' = OverlapStep(rResult, p1)
         /\ rTodo' = rTodo \ {p1}
    /\ UNCHANGED <<rPaths, rExts, rIdx, rCand, rPc, watchVars, envVars, histVars>>

\* lines 190-194, 165: the marked keys are deleted and the map returned
ResolveCleanup ==
    /\ rPc = "overlap"
    /\ rTodo = {}
    /\ rResult' = Cleanup(rResult)
    /\ rPc' = "done"
    /\ UNCHANGED <<rPaths, rExts, rIdx, rCand, rTodo, watchVars, envVars, histVars>>

NextResolve ==
    \/ ResolveCollect
    \/ ResolveOverlap
    \/ ResolveCleanup

SpecResolve == ResolveInit /\ [][NextResolve]_vars

----------------------------------------------------------------------------
(* Specification of construction: NewWatcher called on argument lists that
   include malformed patterns, then Watch started on the watcher returned *)

MaxArgs == 2

ArgPatterns == {P, S, PStarG, PBad, PBadStar}

NewInit ==
    /\ ResolveIdle
    /\ EnvInit
    /\ HistInit
    /\ startTime = 0
    /\ \E wl \in SeqsUpTo(ArgPatterns, MaxArgs), il \in SeqsUpTo(ArgPatterns, MaxArgs) :
         args = [w \in Instances |->
                    IF w = 1 THEN [watch |-> wl, ignore |-> il, exts |-> << <<"g">> >>]
                    ELSE NoArgs]
    /\ watchItems = [w \in Instances |-> {}]
    /\ ignoreItems = [w \in Instances |-> {}]
    /\ allowedExtensions = [w \in Instances |-> {}]
    /\ todo = [w \in Instances |-> {}]
    /\ pc = [w \in Instances |-> IF w = 1 THEN "new" ELSE "absent"]
    /\ pending = [w \in Instances |-> NoPending]
    /\ ScannedInit

\* lines 32-66: the call of NewWatcher; "failed" is the return of (nil, err)
Construct(w) ==
    /\ pc[w] = "new"
    /\ \E nw \in NewWatcher(args[w]) :
         /\ pc' = [pc EXCEPT ![w] = IF nw.err THEN "failed" ELSE "ready"]
         /\ watchItems' = [watchItems EXCEPT ![w] = nw.watchItems]
         /\ ignoreItems' = [ignoreItems EXCEPT ![w] = nw.ignoreItems]
         /\ allowedExtensions' = [allowedExtensions EXCEPT ![w] = nw.allowedExtensions]
    /\ UNCHANGED <<args, todo, pending, startTime>>
    /\ UNCHANGED <<resolveVars, envVars, histVars>>

\* line 72: Watch is started on the watcher NewWatcher returned
StartWatch(w) ==
    /\ pc[w] = "ready"
    /\ pc' = [pc EXCEPT ![w] = "scan"]
    /\ todo' = [todo EXCEPT ![w] = StartCycle(w)]
    /\ scanned' = [scanned EXCEPT ![w] = [r \in watchItems[w] |-> 0]]
    /\ UNCHANGED <<args, watchItems, ignoreItems, allowedExtensions, pending, startTime>>
    /\ UNCHANGED <<resolveVars, envVars, mod, cycleEvents, errCount>>

NextNew ==
    \/ \E w \in Instances : Construct(w)
    \/ \E w \in Instances : StartWatch(w)

SpecNew == NewInit /\ [][NextNew]_vars

----------------------------------------------------------------------------
(* Specification of two watchers in one process: both were constructed and
   both Watch loops run; startTime (line 68) is a package-level variable,
   so there is one of it for the two *)

TwoConfigs ==
    [w \in Instances |->
        IF w = 1 THEN [watch |-> <<AG>>, ignore |-> <<>>, exts |-> << <<"g">> >>]
        ELSE [watch |-> <<S>>, ignore |-> <<>>, exts |-> << <<"g">> >>]]

TwoInit ==
    /\ ResolveIdle
    /\ EnvInit
    /\ HistInit
    /\ startTime = 0
    /\ args = TwoConfigs
    /\ \E nw \in [Instances -> UNION {NewWatcher(TwoConfigs[w]) : w \in Instances}] :
         /\ \A w \in Instances : nw[w] \in NewWatcher(TwoConfigs[w]) /\ ~nw[w].err
         /\ watchItems = [w \in Instances |-> nw[w].watchItems]
         /\ ignoreItems = [w \in Instances |-> nw[w].ignoreItems]
         /\ allowedExtensions = [w \in Instances |-> nw[w].allowedExtensions]
         /\ todo = [w \in Instances |-> nw[w].watchItems]
    /\ pc = [w \in Instances |-> "scan"]
    /\ pending = [w \in Instances |-> NoPending]
    /\ ScannedInit

\* the files under the roots of the two watchers
TwoSaved == {AG, SY}

NextTwo ==
    \/ \E w \in Instances : Scan(w)
    \/ \E w \in Instances : EndCycle(w)
    \/ \E w \in Instances : Wake(w)
    \/ \E w \in Instances : Consume(w)
    \/ \E w \in Instances : SetBaseline(w)
    \/ Tick
    \/ \E f \in TwoSaved : Save(f)

SpecTwo == TwoInit /\ [][NextTwo]_vars

----------------------------------------------------------------------------
(* Specification of one scan: the watcher is at the head of a cycle, in any
   file-system state the clock allows (modification times, baseline, I/O
   fault), and the range of line 74 calls scanChange on its roots *)

ScanInit ==
    /\ ResolveIdle
    /\ clock \in 0..MaxTime
    /\ mtime \in [Saved -> 0..clock]
    /\ startTime \in 0..clock
    /\ fault \in Faults \cup {NoFault}
    /\ mod = [f \in Saved |-> IF After(mtime[f], startTime) THEN "saved" ELSE "none"]
    /\ cycleEvents = [w \in Instances |-> 0]
    /\ errCount = [w \in Instances |-> 0]
    /\ \E cfg \in Configs : \E nw \in NewWatcher(cfg) :
         /\ ~nw.err
         /\ args = [w \in Instances |-> IF w = 1 THEN cfg ELSE NoArgs]
         /\ watchItems = [w \in Instances |-> IF w = 1 THEN nw.watchItems ELSE {}]
         /\ ignoreItems = [w \in Instances |-> IF w = 1 THEN nw.ignoreItems ELSE {}]
         /\ allowedExtensions =
                [w \in Instances |-> IF w = 1 THEN nw.allowedExtensions ELSE {}]
         /\ todo = [w \in Instances |-> IF w = 1 THEN nw.watchItems ELSE {}]
    /\ pc = [w \in Instances |-> IF w = 1 THEN "scan" ELSE "absent"]
    /\ pending = [w \in Instances |-> NoPending]
    /\ ScannedInit

NextScan == \E w \in Instances : Scan(w)

SpecScan == ScanInit /\ [][NextScan]_vars

----------------------------------------------------------------------------
(* Properties of the scanner and the Watch loop *)

\* the paths from root down to f, element by element
PathsDownTo(root, f) ==
    {SubSeq(f, 1, i) : i \in {j \in Len(root)..Len(f) : j = Len(f) \/ f[j + 1] = Sep}}

\* f is a regular file with an allowed extension that the walk of some watch
\* root of w reaches: no element from the root down is hidden or ignored
Eligible(w, f) ==
    /\ f \in Files
    /\ Ext(f) \in allowedExtensions[w]
    /\ \E root \in watchItems[w] :
         /\ f = root \/ HasPrefix(f, root \o <<Sep>>)
         /\ \A q \in PathsDownTo(root, f) : ~Hidden(q) /\ q \notin ignoreItems[w]

\* C1: every path the loop is about to deliver was, when scanChange visited
\* it, a regular file (not a directory), not hidden, not in the ignore set,
\* with an allowed extension and a modification time strictly after the
\* baseline.
C1_DeliveredIsChangedFile ==
    \A w \in Instances :
        pc[w] = "sendEvent" =>
            /\ ~pending[w].isDir
            /\ ~Hidden(pending[w].path)
            /\ pending[w].path \notin ignoreItems[w]
            /\ Ext(pending[w].path) \in allowedExtensions[w]
            /\ After(pending[w].modTime, pending[w].baseline)

\* C2: a modification is reported at most once: an entry whose latest
\* modification was delivered, with the baseline set after the delivery, is
\* not detected again unless it was saved again after that baseline.
C2_ReportedOnce ==
    \A w \in Instances :
        pc[w] = "sendEvent" => pending[w].was # "reported"

\* C2 witness: AG was reported, and a whole later cycle over a root that
\* covers AG has scanned every root without any event.
C2_Witness ==
    /\ mod[AG] = "reported"
    /\ Eligible(1, AG)
    /\ fault = NoFault
    /\ pc[1] = "scan"
    /\ todo[1] = {}
    /\ cycleEvents[1] = 0

\* C3: an eligible file saved again while the loop hands off a change event
\* is detected in a following cycle; so, once the hand-off is over and the
\* loop scans again, such a file (not saved or delivered since) must still
\* have a modification time strictly after the baseline.
C3_ResavedStillDetected ==
    \A w \in Instances : \A f \in Saved :
        (pc[w] \in {"scan", "sleep"} /\ mod[f] = "handoff" /\ Eligible(w, f))
            => After(mtime[f], startTime)

\* C4: an error scanChange returns is delivered on the errors stream once,
\* and then Watch has stopped for good: at most one error per instance, and
\* after it the loop is at no position from which it scans or sends.
C4_ErrorOnceThenStopped ==
    \A w \in Instances :
        /\ errCount[w] <= 1
        /\ errCount[w] = 1 => pc[w] = "stopped" /\ pending[w] = NoPending

\* C4 witness: the error was delivered while roots of the cycle were still
\* to be scanned.
C4_Witness ==
    /\ errCount[1] = 1
    /\ pc[1] = "stopped"
    /\ todo[1] # {}

\* C5: whenever the walk of a root meets an I/O error, scanChange returns an
\* error (and no changed path), for every root the loop is about to scan.
C5_WalkErrorSurfaces ==
    \A w \in Instances : \A root \in todo[w] :
        pc[w] = "scan" =>
            LET res == scanChange(w, root)
            IN res.ioerr => res.kind = "error" /\ res.fileChanged = <<>>

\* C6 (as claimed): between two sleeps at most one path is delivered.
C6_AtMostOneEventPerCycle ==
    \A w \in Instances : cycleEvents[w] <= 1

\* C6 (amended): between two sleeps at most one path is delivered per watch
\* root: every delivery of the cycle belongs to a different root that the
\* range has already yielded.
C6_AtMostOneEventPerRoot ==
    \A w \in Instances :
        cycleEvents[w] + Cardinality(todo[w]) <= Cardinality(watchItems[w])

\* C6 witness: two paths were delivered in one cycle over two roots.
C6_Witness ==
    /\ cycleEvents[1] = 2
    /\ Cardinality(watchItems[1]) = 2

\* f, a path at or below root, has at or below the root a component whose
\* name begins with '.': the root's own name, or a '.' right after a separator
HiddenAtOrBelow(root, f) ==
    \/ Hidden(root)
    \/ \E j \in (Len(root) + 1)..(Len(f) - 1) : f[j] = Sep /\ f[j + 1] = Dot

\* f lies strictly below such a component
BelowHidden(root, f) ==
    \/ Hidden(root) /\ f # root
    \/ \E j \in (Len(root) + 1)..(Len(f) - 1) :
          /\ f[j] = Sep /\ f[j + 1] = Dot
          /\ \E k \in (j + 2)..Len(f) : f[k] = Sep

\* C12: for every watch root, scanChange never returns a path with a hidden
\* component at or below the root, never visits an entry below a hidden
\* one, and no such path is handed to the consumer
C12_HiddenSubtreesPruned ==
    \A w \in Instances :
        /\ \A root \in watchItems[w] :
              LET res == scanChange(w, root)
              IN /\ res.fileChanged # <<>> => ~HiddenAtOrBelow(root, res.fileChanged)
                 /\ \A i \in DOMAIN res.visited : ~BelowHidden(root, res.visited[i])
        /\ pending[w].kind = "event" =>
              ~HiddenAtOrBelow(pending[w].root, pending[w].path)

\* a file inside the hidden directory has a modification time after the
\* baseline, the root above it was scanned, the walk reached the hidden
\* directory, and no change was found
C12_Witness ==
    /\ pc[1] = "scan"
    /\ watchItems[1] = {P}
    /\ scanned[1][P] = 1
    /\ pending[1] = NoPending
    /\ fault = NoFault
    /\ After(mtime[HidA], startTime)
    /\ \E i \in DOMAIN scanChange(1, P).visited : scanChange(1, P).visited[i] = Hid

\* the directories given literally (no "*") in the ignoreItems argument
LiteralIgnoredDirs(w) ==
    {args[w].ignore[i] : i \in 1..Len(args[w].ignore)} \cap Dirs

\* f is inside the subtree of directory d
InSubtree(d, f) == HasPrefix(f, d \o <<Sep>>)

\* C13: no change event is produced for a file inside the subtree of a
\* directory given literally in ignoreItems, whatever else ignoreItems holds
C13_IgnoredDirNeverReported ==
    \A w \in Instances :
        pending[w].kind = "event" =>
            \A d \in LiteralIgnoredDirs(w) : ~InSubtree(d, pending[w].path)

\* one step seen from the loop of w: what scanChange returned is offered to
\* the consumer, the loop waits in the send without scanning or writing the
\* baseline, and it leaves the send only by the consumer receiving, once
HandoffStep(w) ==
    /\ (pending'[w] # pending[w] /\ pending'[w].kind = "event") => pc'[w] = "sendEvent"
    /\ (pending'[w] # pending[w] /\ pending'[w].kind = "error") => pc'[w] = "sendError"
    /\ (pc'[w] = "setBaseline" /\ pc[w] # "setBaseline") => pc[w] = "sendEvent"
    /\ (pc[w] \in {"sendEvent", "sendError"}) =>
          /\ todo'[w] = todo[w]
          /\ startTime' = startTime
          /\ \/ /\ pc'[w] = pc[w]
                /\ pending'[w] = pending[w]
                /\ cycleEvents'[w] = cycleEvents[w]
                /\ errCount'[w] = errCount[w]
             \/ /\ pc[w] = "sendEvent"
                /\ pc'[w] = "setBaseline"
                /\ pending'[w] = pending[w]
                /\ cycleEvents'[w] = cycleEvents[w] + 1
             \/ /\ pc[w] = "sendError"
                /\ pc'[w] = "stopped"
                /\ errCount'[w] = errCount[w] + 1

\* C14: the hand-off is a blocking rendezvous: every change or error
\* scanChange returns is offered to the consumer and accepted exactly once;
\* while the loop waits for the consumer it scans no root and does not
\* advance the baseline, and only the consumer's receive lets it go on
C14_BlockingRendezvous == [][\A w \in Instances : HandoffStep(w)]_vars

\* the loop waits in the send with roots still to scan while the clock has
\* moved on and a file was saved
C14_Witness ==
    /\ pc[1] = "sendEvent"
    /\ todo[1] # {}
    /\ clock > pending[1].modTime
    /\ \E f \in Saved : mod[f] = "handoff"

\* C15: the baseline an instance compares modification times against is
\* its own: a step in which another instance finishes reporting an event
\* (line 83) leaves it as it was
C15_BaselineOwnedByInstance ==
    [][\A v \in Instances : \A w \in Instances \ {v} :
          (pc[v] = "setBaseline" /\ pc'[v] = "scan" /\ pc[w] # "absent")
              => startTime' = startTime]_vars

\* C16: in a cycle without a scan error, when the range of line 74 is
\* exhausted and during the sleep that follows, scanChange was called
\* exactly once for every root of the watch set, also for the roots that
\* came after a root with a change; no root is scanned twice in a cycle
C16_EveryRootScannedOncePerCycle ==
    \A w \in Instances : \A r \in watchItems[w] :
        /\ pc[w] \notin {"absent", "new", "failed", "ready"} => scanned[w][r] <= 1
        /\ (pc[w] = "sleep" \/ (pc[w] = "scan" /\ todo[w] = {})) => scanned[w][r] = 1

\* a cycle over two roots is complete and both roots produced an event in
\* it: the second root was scanned after the change found in the first
C16_Witness ==
    /\ pc[1] = "scan"
    /\ todo[1] = {}
    /\ Cardinality(watchItems[1]) = 2
    /\ cycleEvents[1] = 2
    /\ \A r \in watchItems[1] : scanned[1][r] = 1

\* the pre-order traversal of the tree at path, names in lexical order,
\* without the hidden and ignored entries and what lies below them
RECURSIVE PreOrder(_, _)
RECURSIVE PreOrderNames(_, _, _, _)
PreOrder(w, path) ==
    IF Hidden(path) \/ path \in ignoreItems[w] THEN <<>>
    ELSE IF path \in Dirs
    THEN <<path>> \o PreOrderNames(w, path, DirNames(path), 1)
    ELSE <<path>>

PreOrderNames(w, dir, names, i) ==
    IF i > Len(names) THEN <<>>
    ELSE PreOrder(w, Join(dir, names[i])) \o PreOrderNames(w, dir, names, i + 1)

\* C17: with no I/O fault, scanChange returns the first entry of the pruned
\* pre-order traversal of the root that is a regular file with an allowed
\* extension modified strictly after the baseline, visits nothing after
\* it, and returns the empty result exactly when there is no such entry
C17_FirstChangeInPreOrder ==
    \A w \in Instances : \A root \in watchItems[w] :
        fault = NoFault =>
            LET res == scanChange(w, root)
                order == PreOrder(w, root)
                cands == {i \in DOMAIN order :
                            /\ order[i] \in Files
                            /\ Ext(order[i]) \in allowedExtensions[w]
                            /\ After(ModTime(order[i]), startTime)}
            IN /\ res.kind = "ok"
               /\ IF cands = {} THEN res.fileChanged = <<>>
                  ELSE LET first == CHOOSE i \in cands : \A j \in cands : i <= j
                       IN /\ res.fileChanged = order[first]
                          /\ res.visited[Len(res.visited)] = order[first]

\* C18: the callback never uses absent file information: no call of
\* scanChange on a watch root panics, whatever I/O fault is present, and
\* Watch never crashes
C18_NoUseOfAbsentInfo ==
    \A w \in Instances :
        /\ pc[w] # "crashed"
        /\ \A root \in watchItems[w] : scanChange(w, root).kind # "panic"

----------------------------------------------------------------------------
(* Properties of resolvePaths *)

\* C7: the set removeOverlappedPaths leaves holds no two distinct paths of
\* which one is a prefix of the other, whatever the order of the range.
C7_NoOverlap ==
    rPc = "done" =>
        \A a \in DOMAIN rResult : \A b \in DOMAIN rResult :
            a # b => ~HasPrefix(a, b)

\* C7 witness: overlapping candidates were removed and several paths are left.
C7_Witness ==
    /\ rPc = "done"
    /\ \E a \in rCand : \E b \in rCand : a # b /\ HasPrefix(a, b)
    /\ Cardinality(DOMAIN rResult) >= 2

\* C8: every path removeOverlappedPaths removes lies in the directory
\* subtree of a retained path: below it through a path separator.
C8_RemovedIsDescendant ==
    rPc = "done" =>
        \A p \in rCand \ DOMAIN rResult :
            \E r \in DOMAIN rResult : p = r \/ HasPrefix(p, r \o <<Sep>>)

\* the candidates C9 describes for one pattern
CandidatesByResult(path, extensions) ==
    IF ContainsStar(path)
    THEN {match \in Glob(path) : Ext(match) \in extensions}
    ELSE {path}

\* C9: a result of a glob is a candidate iff its own extension is in the
\* filter; a pattern without wildcard is a candidate whatever its extension.
C9_FilterByResultExtension ==
    rPc \in {"overlap", "done"} =>
        rCand = UNION {CandidatesByResult(rPaths[i], rExts) : i \in 1..Len(rPaths)}

\* the paths of a set that have no other path of the set as a prefix
Minimal(cand) == {c \in cand : \A d \in cand : d # c => ~HasPrefix(c, d)}

\* C10: the set resolvePaths returns is determined by the set of patterns,
\* the extension filter and the file tree alone: not by the order of the
\* range of removeOverlappedPaths, nor by the order or the repetition of
\* the patterns.
C10_Deterministic ==
    rPc = "done" =>
        DOMAIN rResult =
            Minimal(UNION {KeptMatches(rPaths[i], rExts) : i \in 1..Len(rPaths)})

\* C10 witness: a list with a repeated pattern whose candidates overlapped.
C10_Witness ==
    /\ rPc = "done"
    /\ \E i \in 1..Len(rPaths) : \E j \in 1..Len(rPaths) : i < j /\ rPaths[i] = rPaths[j]
    /\ Cardinality(rCand) > Cardinality(DOMAIN rResult)
    /\ DOMAIN rResult # {}

----------------------------------------------------------------------------
(* Properties of construction *)

ArgEntries(w) ==
    {args[w].watch[i] : i \in 1..Len(args[w].watch)}
        \cup {args[w].ignore[i] : i \in 1..Len(args[w].ignore)}

\* C11: whenever an entry of watchItems or ignoreItems is a malformed glob
\* pattern, NewWatcher returns an error and no watcher; a watcher is never
\* built from arguments that hold a malformed pattern
C11_MalformedGlobFailsConstruction ==
    \A w \in Instances :
        /\ (pc[w] \in {"ready", "scan"}) =>
               \A e \in ArgEntries(w) : ~Malformed(e)
        /\ (pc[w] = "failed") =>
               (watchItems[w] = {} /\ ignoreItems[w] = {})

====
